---- MODULE Spec2Model ----
(***************************************************************************)
(* Model of wrapper/vertex_wrapper.py: the console formatter               *)
(* (OutputFormatter) and the langchain callback handler (AllChainDetails). *)
(*                                                                         *)
(* A handler is a straight-line Python method.  Its effects are the calls  *)
(* it makes on the output sink, the calls of breakpoint() and, possibly,   *)
(* the exception that ends it.  Each handler is translated into an         *)
(* operator that yields these effects in program order; the actions run    *)
(* the effects up to the next breakpoint(), where the handler is suspended *)
(* in pdb until the operator continues or quits.                           *)
(*                                                                         *)
(* Python values are modelled by tagged records (str, None, list of str),  *)
(* dicts by sequences of <<key, value>> pairs in insertion order, and      *)
(* f"{x}" / repr(x) by the operators PyStr / PyRepr that build the text    *)
(* Python builds.  All payload strings are single-line and quote-free.     *)
(***************************************************************************)
EXTENDS Integers, Sequences, FiniteSets, TLC

(* Bounds of the payloads the framework delivers. *)
MaxPrompts == 2
MaxGenerations == 2
MaxInputs == 3
MaxDocuments == 2

VARIABLES debug_mode, pc, exc, call, output, rest, prev

vars == <<debug_mode, pc, exc, call, output, rest, prev>>

----------------------------------------------------------------------------
(* Python values and their formatting. *)

None == [t |-> "none", s |-> "", l |-> <<>>]

Str(s) == [t |-> "str", s |-> s, l |-> <<>>]

List(l) == [t |-> "list", s |-> "", l |-> l]

Quote(s) == "'" \o s \o "'"

RECURSIVE JoinQuoted(_)
JoinQuoted(l) ==
    IF l = <<>> THEN ""
    ELSE IF Len(l) = 1 THEN Quote(l[1])
    ELSE Quote(l[1]) \o ", " \o JoinQuoted(Tail(l))

ListRepr(l) == "[" \o JoinQuoted(l) \o "]"

PyRepr(v) ==
    IF v.t = "str" THEN Quote(v.s)
    ELSE IF v.t = "none" THEN "None"
    ELSE ListRepr(v.l)

PyStr(v) == IF v.t = "str" THEN v.s ELSE PyRepr(v)

RECURSIVE JoinPairs(_)
JoinPairs(d) ==
    IF d = <<>> THEN ""
    ELSE IF Len(d) = 1 THEN Quote(d[1][1]) \o ": " \o PyRepr(d[1][2])
    ELSE Quote(d[1][1]) \o ": " \o PyRepr(d[1][2]) \o ", " \o JoinPairs(Tail(d))

DictStr(d) == "{" \o JoinPairs(d) \o "}"

Keys(d) == [i \in 1..Len(d) |-> d[i][1]]

HasKey(d, k) == \E i \in 1..Len(d) : d[i][1] = k

Get(d, k) == d[CHOOSE i \in 1..Len(d) : d[i][1] = k][2]

(* "sep".join(l) *)
RECURSIVE Join(_, _)
Join(sep, l) ==
    IF l = <<>> THEN ""
    ELSE IF Len(l) = 1 THEN l[1]
    ELSE l[1] \o sep \o Join(sep, Tail(l))

(* f"{contents.splitlines()}" for a single-line string *)
SplitLinesStr(contents) == IF contents = "" THEN "[]" ELSE ListRepr(<<contents>>)

----------------------------------------------------------------------------
(* OutputFormatter: one effect per call, with the colours it prints in. *)

Effect(fn, style, label, text) ==
    [fn |-> fn, style |-> style, label |-> label, text |-> text]

heading(text) == Effect("heading", <<"BOLD">>, "", text)

key_info(text) == Effect("key_info", <<"BOLD", "DARKCYAN">>, "", text)

key_info_labeled(label, contents, contents_newlined) ==
    Effect("key_info_labeled", <<"BOLD", "DARKCYAN">>, label,
           IF contents_newlined THEN SplitLinesStr(contents) ELSE contents)

debug_info(text) == Effect("debug_info", <<"BLUE">>, "", text)

debug_info_labeled(label, contents, contents_newlined) ==
    Effect("debug_info_labeled", <<"BOLD", "BLUE">>, label,
           IF contents_newlined THEN SplitLinesStr(contents) ELSE contents)

llm_call(text) == Effect("llm_call", <<"ITALICS">>, "", text)

llm_output(text) == Effect("llm_output", <<"UNDERLINE">>, "", text)

tool_call(text) == Effect("tool_call", <<"ITALICS", "PURPLE">>, "", text)

tool_output(text) == Effect("tool_output", <<"UNDERLINE", "PURPLE">>, "", text)

debug_error(text) == Effect("debug_error", <<"BOLD", "RED">>, "", text)

(* the builtin print(text) *)
print(text) == Effect("print", <<>>, "", text)

(* the builtin breakpoint() *)
Breakpoint == Effect("breakpoint", <<>>, "", "")

(* an exception of the named type leaving the handler *)
Raise(type) == Effect("raise", <<>>, "", type)

----------------------------------------------------------------------------
(* Statement sequencing: an exception ends the handler. *)

Raises(s) == s # <<>> /\ s[Len(s)].fn = "raise"

Then(a, b) == IF Raises(a) THEN a ELSE a \o b

RECURSIVE Body(_)
Body(stmts) ==
    IF stmts = <<>> THEN <<>> ELSE Then(stmts[1], Body(Tail(stmts)))

(* a statement that formats kwargs[key]: KeyError when the key is absent *)
WithKey(d, k, s) == IF HasKey(d, k) THEN s ELSE <<Raise("KeyError")>>

(* a statement that reads l[0]: IndexError when the list is empty *)
WithFirst(l, s) == IF l # <<>> THEN s ELSE <<Raise("IndexError")>>

If(c, s) == IF c THEN s ELSE <<>>

----------------------------------------------------------------------------
(* Payload objects of the framework and their string forms. *)

(* serialized: a dict that may hold "id" (a list of str) and "name" (a str) *)
ClassName(serialized) == Join(".", Get(serialized, "id").l)

(* LLMResult: generations is a list of lists of Generation(text) *)
RECURSIVE JoinGeneration(_)
JoinGeneration(g) ==
    IF g = <<>> THEN ""
    ELSE IF Len(g) = 1 THEN "Generation(text=" \o Quote(g[1]) \o ")"
    ELSE "Generation(text=" \o Quote(g[1]) \o "), " \o JoinGeneration(Tail(g))

RECURSIVE JoinGenerations(_)
JoinGenerations(gs) ==
    IF gs = <<>> THEN ""
    ELSE IF Len(gs) = 1 THEN "[" \o JoinGeneration(gs[1]) \o "]"
    ELSE "[" \o JoinGeneration(gs[1]) \o "], " \o JoinGenerations(Tail(gs))

ResponseStr(response) ==
    "generations=[" \o JoinGenerations(response.generations) \o "]"

(* an exception object: str(error) is its message *)
ErrorStr(error) == error.msg

(* AgentAction / AgentFinish: an object that may lack the attribute log *)
ObjectStr(obj) ==
    IF obj.has_log
    THEN obj.cls \o "(log=" \o Quote(obj.log) \o ")"
    ELSE obj.cls \o "()"

----------------------------------------------------------------------------
(* AllChainDetails: the effects of each handler, in program order. *)

(* mutant: the test for several items is off by one *)
HasMultiple_off_by_one(l) == Len(l) > 2

(* len(prompts) > 1, len(response.generations) > 1 *)
HasMultiple(l) == Len(l) > 1

(* mutant: on_text does not test debug_mode *)
on_text_unguarded(text, kwargs) ==
    Body(<< <<heading("\n\n> Preparing text.")>>,
            WithKey(kwargs, "run_id",
                <<debug_info_labeled("Chain ID", PyStr(Get(kwargs, "run_id")), FALSE)>>),
            WithKey(kwargs, "parent_run_id",
                <<debug_info_labeled("Parent chain ID",
                                     PyStr(Get(kwargs, "parent_run_id")), FALSE)>>),
            <<debug_info_labeled("Arguments", DictStr(kwargs), FALSE)>>,
            <<print(text)>> >>)

on_text(text, kwargs) ==
    If(debug_mode,
       Body(<< <<heading("\n\n> Preparing text.")>>,
               WithKey(kwargs, "run_id",
                   <<debug_info_labeled("Chain ID", PyStr(Get(kwargs, "run_id")), FALSE)>>),
               WithKey(kwargs, "parent_run_id",
                   <<debug_info_labeled("Parent chain ID",
                                        PyStr(Get(kwargs, "parent_run_id")), FALSE)>>),
               <<debug_info_labeled("Arguments", DictStr(kwargs), FALSE)>>,
               <<print(text)>> >>))

(* mutant: breakpoint() is called before the prompt list is printed *)
on_llm_start_break_first(serialized, prompts, kwargs) ==
    Body(<< <<heading("\n\n> Sending text to the LLM.")>>,
            WithKey(kwargs, "run_id",
                <<key_info_labeled("Chain ID", PyStr(Get(kwargs, "run_id")), FALSE)>>),
            WithKey(kwargs, "parent_run_id",
                <<key_info_labeled("Parent chain ID",
                                   PyStr(Get(kwargs, "parent_run_id")), FALSE)>>),
            If(HasMultiple(prompts),
               <<debug_error("prompts has multiple items."),
                 debug_error("Only outputting first item in prompts.")>>
               \o If(debug_mode,
                     <<Breakpoint,
                       debug_info_labeled("Prompts", ListRepr(prompts), FALSE)>>)),
            <<key_info("Text sent to LLM:")>>,
            WithFirst(prompts, <<llm_call(prompts[1])>>),
            If(debug_mode,
               <<debug_info_labeled("Arguments", DictStr(kwargs), FALSE),
                 debug_info_labeled("serialized", DictStr(serialized), FALSE)>>) >>)

on_llm_start(serialized, prompts, kwargs) ==
    Body(<< <<heading("\n\n> Sending text to the LLM.")>>,
            WithKey(kwargs, "run_id",
                <<key_info_labeled("Chain ID", PyStr(Get(kwargs, "run_id")), FALSE)>>),
            WithKey(kwargs, "parent_run_id",
                <<key_info_labeled("Parent chain ID",
                                   PyStr(Get(kwargs, "parent_run_id")), FALSE)>>),
            If(HasMultiple(prompts),
               <<debug_error("prompts has multiple items."),
                 debug_error("Only outputting first item in prompts.")>>
               \o If(debug_mode,
                     <<debug_info_labeled("Prompts", ListRepr(prompts), FALSE),
                       Breakpoint>>)),
            <<key_info("Text sent to LLM:")>>,
            WithFirst(prompts, <<llm_call(prompts[1])>>),
            If(debug_mode,
               <<debug_info_labeled("Arguments", DictStr(kwargs), FALSE),
                 debug_info_labeled("serialized", DictStr(serialized), FALSE)>>) >>)

on_llm_end(response, kwargs) ==
    Body(<< <<heading("\n\n> Received response from LLM.")>>,
            WithKey(kwargs, "run_id",
                <<key_info_labeled("Chain ID", PyStr(Get(kwargs, "run_id")), FALSE)>>),
            WithKey(kwargs, "parent_run_id",
                <<key_info_labeled("Parent chain ID",
                                   PyStr(Get(kwargs, "parent_run_id")), FALSE)>>),
            If(HasMultiple(response.generations),
               <<debug_error("response object has multiple generations."),
                 debug_error("Only outputting first generation in response.")>>
               \o If(debug_mode,
                     <<debug_info_labeled("response", ResponseStr(response), FALSE),
                       Breakpoint>>)),
            <<key_info("Text received from LLM:")>>,
            WithFirst(response.generations,
                WithFirst(response.generations[1],
                    <<llm_output(response.generations[1][1])>>)),
            If(debug_mode,
               <<debug_info_labeled("Arguments", DictStr(kwargs), FALSE),
                 debug_info_labeled("response", ResponseStr(response), FALSE)>>) >>)

(* mutant: only "stop" is skipped *)
IsNoise_stop_only(key) == key \in {"stop"}

(* the keys the loop over inputs.items() skips *)
IsNoise(key) == key \in {"stop", "agent_scratchpad"}

(* the loop over inputs.items(): one line per key that is not noise *)
RECURSIVE InputLines(_)
InputLines(inputs) ==
    IF inputs = <<>> THEN <<>>
    ELSE If(~IsNoise(inputs[1][1]),
            <<key_info_labeled("   " \o inputs[1][1], PyStr(inputs[1][2]), FALSE)>>)
         \o InputLines(Tail(inputs))

(* line 210 reads self.out.debug, which OutputFormatter does not define *)
on_chain_start(serialized, inputs, kwargs) ==
    LET class_name ==
            IF ~HasKey(serialized, "id")
            THEN "Unknown -- serialized['id'] is missing"
            ELSE ClassName(serialized)
    IN  Body(<< <<heading("\n\n> Starting new chain.")>>,
                If(~HasKey(serialized, "id"),
                   <<debug_error("Missing serialized['id']")>>
                   \o If(debug_mode,
                         <<debug_info_labeled("serialized", DictStr(serialized), FALSE),
                           Breakpoint>>)),
                <<key_info_labeled("Chain class", class_name, FALSE)>>,
                WithKey(kwargs, "run_id",
                    <<key_info_labeled("Chain ID", PyStr(Get(kwargs, "run_id")), FALSE)>>),
                WithKey(kwargs, "parent_run_id",
                    <<key_info_labeled("Parent chain ID",
                                       PyStr(Get(kwargs, "parent_run_id")), FALSE)>>),
                IF Len(inputs) < 1
                THEN <<Raise("AttributeError")>>
                ELSE <<key_info("Iterating through keys/values of chain inputs:")>>,
                InputLines(inputs),
                If(debug_mode,
                   <<debug_info_labeled("Arguments", DictStr(kwargs), FALSE),
                     debug_info_labeled("inputs", DictStr(inputs), FALSE),
                     debug_info_labeled("serialized", DictStr(serialized), FALSE)>>) >>)

(* line 233 reads self.out.debug_errors, which OutputFormatter does not define *)
on_chain_end(outputs, kwargs) ==
    Body(<< <<heading("\n\n> Ending chain.")>>,
            WithKey(kwargs, "run_id",
                <<key_info_labeled("Chain ID", PyStr(Get(kwargs, "run_id")), FALSE)>>),
            WithKey(kwargs, "parent_run_id",
                <<key_info_labeled("Parent chain ID",
                                   PyStr(Get(kwargs, "parent_run_id")), FALSE)>>),
            IF Len(outputs) = 0
            THEN <<Raise("AttributeError")>>
            ELSE [i \in 1..Len(Keys(outputs)) |->
                    key_info_labeled("Output " \o Keys(outputs)[i],
                                     PyStr(Get(outputs, Keys(outputs)[i])), TRUE)],
            If(debug_mode,
               <<debug_info_labeled("Arguments", DictStr(kwargs), FALSE),
                 debug_info_labeled("outputs", DictStr(outputs), FALSE)>>) >>)

(* mutant: the parent run identifier is printed before the run identifier *)
on_tool_start_parent_first(serialized, input_str, kwargs) ==
    Body(<< <<heading("\n\n> Using tool.")>>,
            WithKey(kwargs, "parent_run_id",
                <<key_info_labeled("Parent chain ID",
                                   PyStr(Get(kwargs, "parent_run_id")), FALSE)>>),
            WithKey(kwargs, "run_id",
                <<key_info_labeled("Chain ID", PyStr(Get(kwargs, "run_id")), FALSE)>>),
            WithKey(serialized, "name",
                <<key_info_labeled("Tool name", PyStr(Get(serialized, "name")), FALSE)>>),
            <<key_info("Query sent to tool:")>>,
            <<tool_call(input_str)>>,
            If(debug_mode,
               <<debug_info_labeled("Arguments", DictStr(kwargs), FALSE),
                 debug_info_labeled("serialized", DictStr(serialized), FALSE)>>) >>)

on_tool_start(serialized, input_str, kwargs) ==
    Body(<< <<heading("\n\n> Using tool.")>>,
            WithKey(kwargs, "run_id",
                <<key_info_labeled("Chain ID", PyStr(Get(kwargs, "run_id")), FALSE)>>),
            WithKey(kwargs, "parent_run_id",
                <<key_info_labeled("Parent chain ID",
                                   PyStr(Get(kwargs, "parent_run_id")), FALSE)>>),
            WithKey(serialized, "name",
                <<key_info_labeled("Tool name", PyStr(Get(serialized, "name")), FALSE)>>),
            <<key_info("Query sent to tool:")>>,
            <<tool_call(input_str)>>,
            If(debug_mode,
               <<debug_info_labeled("Arguments", DictStr(kwargs), FALSE),
                 debug_info_labeled("serialized", DictStr(serialized), FALSE)>>) >>)

(* output is a parameter, so "output" is always in locals() *)
on_tool_end(output_, observation_prefix, llm_prefix, kwargs) ==
    LET output_in_locals == TRUE
    IN  Body(<< <<heading("\n\n> Received tool output.")>>,
                WithKey(kwargs, "run_id",
                    <<key_info_labeled("Chain ID", PyStr(Get(kwargs, "run_id")), FALSE)>>),
                WithKey(kwargs, "parent_run_id",
                    <<key_info_labeled("Parent chain ID",
                                       PyStr(Get(kwargs, "parent_run_id")), FALSE)>>),
                WithKey(kwargs, "name",
                    <<key_info_labeled("Tool name", PyStr(Get(kwargs, "name")), FALSE)>>),
                IF ~output_in_locals
                THEN <<debug_error("No tool output.")>> \o If(debug_mode, <<Breakpoint>>)
                ELSE <<key_info("Response from tool:"), tool_output(output_)>>,
                If(debug_mode,
                   <<debug_info_labeled("Arguments", DictStr(kwargs), FALSE),
                     debug_info_labeled("observation_prefix", PyStr(observation_prefix), FALSE),
                     debug_info_labeled("llm_prefix", PyStr(llm_prefix), FALSE)>>) >>)

on_agent_action(action, kwargs) ==
    Body(<< <<heading("\n\n> Agent taking an action.")>>,
            WithKey(kwargs, "run_id",
                <<key_info_labeled("Chain ID", PyStr(Get(kwargs, "run_id")), FALSE)>>),
            WithKey(kwargs, "parent_run_id",
                <<key_info_labeled("Parent chain ID",
                                   PyStr(Get(kwargs, "parent_run_id")), FALSE)>>),
            IF ~action.has_log
            THEN <<debug_error("No log in action.")>>
                 \o If(debug_mode,
                       <<debug_info_labeled("action", ObjectStr(action), FALSE),
                         Breakpoint>>)
            ELSE <<key_info_labeled("Action log", action.log, TRUE)>>,
            If(debug_mode,
               <<debug_info_labeled("Arguments", DictStr(kwargs), FALSE),
                 debug_info_labeled("action", ObjectStr(action), FALSE)>>) >>)

on_agent_finish(finish, kwargs) ==
    Body(<< <<heading("\n\n> Agent has finished.")>>,
            WithKey(kwargs, "run_id",
                <<key_info_labeled("Chain ID", PyStr(Get(kwargs, "run_id")), FALSE)>>),
            WithKey(kwargs, "parent_run_id",
                <<key_info_labeled("Parent chain ID",
                                   PyStr(Get(kwargs, "parent_run_id")), FALSE)>>),
            IF ~finish.has_log
            THEN <<debug_error("No log in action finish.")>>
                 \o If(debug_mode, <<Breakpoint>>)
            ELSE <<key_info_labeled("Action finish log", finish.log, TRUE)>>,
            If(debug_mode,
               <<debug_info_labeled("Arguments", DictStr(kwargs), FALSE),
                 debug_info_labeled("finish", ObjectStr(finish), FALSE)>>) >>)

on_llm_error(error, kwargs) ==
    Body(<< <<debug_error("LLM Error")>>,
            <<debug_info_labeled("Error object", ErrorStr(error), FALSE)>>,
            If(debug_mode, <<Breakpoint>>) >>)

(* mutant: breakpoint() is called whatever debug_mode is *)
on_chain_error_unguarded(error, kwargs) ==
    Body(<< <<debug_error("Chain Error")>>,
            <<debug_info_labeled("Error object", ErrorStr(error), FALSE)>>,
            <<Breakpoint>> >>)

on_chain_error(error, kwargs) ==
    Body(<< <<debug_error("Chain Error")>>,
            <<debug_info_labeled("Error object", ErrorStr(error), FALSE)>>,
            If(debug_mode, <<Breakpoint>>) >>)

on_tool_error(error, kwargs) ==
    Body(<< <<debug_error("Chain Error")>>,
            <<debug_info_labeled("Error object", ErrorStr(error), FALSE)>>,
            If(debug_mode, <<Breakpoint>>) >>)

on_retriever_start(serialized, query, run_id, parent_run_id, tags, metadata, kwargs) ==
    LET class_name ==
            IF ~HasKey(serialized, "id")
            THEN "Unknown -- serialized['id'] is missing"
            ELSE ClassName(serialized)
    IN  Body(<< <<heading("\n\n> Querying retriever.")>>,
                <<key_info_labeled("Chain ID", PyStr(run_id), FALSE)>>,
                <<key_info_labeled("Parent chain ID", PyStr(parent_run_id), FALSE)>>,
                <<key_info_labeled("Tags", PyStr(tags), FALSE)>>,
                If(~HasKey(serialized, "id"),
                   <<debug_error("Missing serialized['id']")>>
                   \o If(debug_mode,
                         <<debug_info_labeled("serialized", DictStr(serialized), FALSE),
                           Breakpoint>>)),
                <<key_info_labeled("Retriever class", class_name, FALSE)>>,
                <<key_info("Query sent to retriever:")>>,
                <<tool_call(query)>>,
                If(debug_mode,
                   <<debug_info_labeled("Arguments", DictStr(kwargs), FALSE),
                     debug_info_labeled("metadata", PyStr(metadata), FALSE),
                     debug_info_labeled("serialized", DictStr(serialized), FALSE)>>) >>)

(* mutant: the documents are numbered from 1 *)
DocumentSection_one_based(doc_num, doc, n) ==
    <<key_info("---------------------------------------------------"),
      key_info("Document number " \o ToString(doc_num + 1) \o " of " \o ToString(n)),
      key_info_labeled("Metadata", DictStr(doc.metadata), FALSE),
      key_info("Document contents:"),
      tool_output(doc.page_content)>>

(* the effects of one pass of the loop over enumerate(documents); doc_num is 0-based *)
DocumentSection(doc_num, doc, n) ==
    <<key_info("---------------------------------------------------"),
      key_info("Document number " \o ToString(doc_num) \o " of " \o ToString(n)),
      key_info_labeled("Metadata", DictStr(doc.metadata), FALSE),
      key_info("Document contents:"),
      tool_output(doc.page_content)>>

RECURSIVE DocumentSections(_, _, _)
DocumentSections(documents, doc_num, n) ==
    IF doc_num >= n THEN <<>>
    ELSE DocumentSection(doc_num, documents[doc_num + 1], n)
         \o DocumentSections(documents, doc_num + 1, n)

on_retriever_end(documents, run_id, parent_run_id, kwargs) ==
    Body(<< <<heading("\n\n> Retriever finished.")>>,
            <<key_info_labeled("Chain ID", PyStr(run_id), FALSE)>>,
            <<key_info_labeled("Parent chain ID", PyStr(parent_run_id), FALSE)>>,
            <<key_info("Found " \o ToString(Len(documents)) \o " documents.")>>,
            IF Len(documents) = 0
            THEN <<debug_error("No documents found.")>> \o If(debug_mode, <<Breakpoint>>)
            ELSE DocumentSections(documents, 0, Len(documents)) >>)

----------------------------------------------------------------------------
(* The payloads the framework delivers. *)

RECURSIVE SeqsUpTo(_, _)
SeqsUpTo(S, n) ==
    IF n = 0 THEN {<<>>}
    ELSE LET shorter == SeqsUpTo(S, n - 1)
         IN  shorter \cup {Append(q, x) : q \in shorter, x \in S}

Injective(q) == \A i, j \in 1..Len(q) : q[i] = q[j] => i = j

(* <<run_id, parent_run_id>>: a top-level run has no parent *)
Runs == {<<Str("run-1"), None>>, <<Str("run-2"), Str("run-1")>>}

Kwargs == {<< <<"run_id", r[1]>>, <<"parent_run_id", r[2]>> >> : r \in Runs}

(* on_tool_end reads kwargs['name'], which the framework's tools add *)
ToolEndKwargs == Kwargs \cup {Append(k, <<"name", Str("search")>>) : k \in Kwargs}

SerializedId == <<"id", List(<<"langchain", "chains", "LLMChain">>)>>

SerializedName == <<"name", Str("search")>>

Serializeds ==
    {<<>>, <<SerializedId>>, <<SerializedName>>, <<SerializedId, SerializedName>>}

Prompts == SeqsUpTo({"a", "b"}, MaxPrompts)

Responses ==
    {[generations |-> g] :
        g \in SeqsUpTo({<<>>, <<"x">>, <<"y", "z">>}, MaxGenerations)}

MappingKeys == {"stop", "agent_scratchpad", "input", "food"}

Mappings ==
    {[i \in 1..Len(ks) |-> <<ks[i], Str(ks[i] \o "-value")>>] :
        ks \in {q \in SeqsUpTo(MappingKeys, MaxInputs) : Injective(q)}}

Texts == {"", "text"}

Agents(cls) ==
    {[cls |-> cls, has_log |-> TRUE, log |-> t] : t \in Texts}
    \cup {[cls |-> cls, has_log |-> FALSE, log |-> ""]}

Errors == {[cls |-> "ValueError", msg |-> "boom"], [cls |-> "KeyboardInterrupt", msg |-> ""]}

Documents ==
    SeqsUpTo({[page_content |-> "p1", metadata |-> <<>>],
              [page_content |-> "p2", metadata |-> << <<"source", Str("s")>> >>]},
             MaxDocuments)

TagsValues == {None, List(<<"t1">>)}

----------------------------------------------------------------------------
(* The state machine: the framework calls one handler at a time. *)

Ready == {"idle", "returned", "raised", "aborted"}

NoPrev == [set |-> FALSE, output |-> <<>>, pc |-> "", exc |-> "", debug_mode |-> FALSE]

Init ==
    /\ debug_mode \in BOOLEAN
    /\ pc = "idle"
    /\ exc = ""
    /\ call = [kind |-> "none"]
    /\ output = <<>>
    /\ rest = <<>>
    /\ prev = NoPrev

(* history: when the framework calls the handler it called last, with the
   same payload, and that call ran to its end, prev keeps what that call
   emitted, how it ended and the debug_mode it ran under *)
Remember ==
    prev' = IF call'.kind = call.kind /\ call' = call /\ pc \in {"returned", "raised"}
            THEN [set |-> TRUE, output |-> output, pc |-> pc, exc |-> exc,
                  debug_mode |-> debug_mode]
            ELSE NoPrev

FirstBreakpoint(s) ==
    IF \E i \in 1..Len(s) : s[i].fn = "breakpoint"
    THEN CHOOSE i \in 1..Len(s) :
            /\ s[i].fn = "breakpoint"
            /\ \A j \in 1..(i - 1) : s[j].fn # "breakpoint"
    ELSE 0

(* run the effects s after the effects done: to the next breakpoint(), to the
   exception that ends the handler, or to its return *)
Run(done, s) ==
    LET k == FirstBreakpoint(s)
    IN  IF k > 0
        THEN /\ output' = done \o SubSeq(s, 1, k)
             /\ rest' = SubSeq(s, k + 1, Len(s))
             /\ pc' = "suspended"
             /\ exc' = ""
        ELSE IF Raises(s)
        THEN /\ output' = done \o SubSeq(s, 1, Len(s) - 1)
             /\ rest' = <<>>
             /\ pc' = "raised"
             /\ exc' = s[Len(s)].text
        ELSE /\ output' = done \o s
             /\ rest' = <<>>
             /\ pc' = "returned"
             /\ exc' = ""

Call_on_text ==
    /\ pc \in Ready
    /\ \E text \in Texts, kwargs \in Kwargs :
        /\ call' = [kind |-> "on_text", text |-> text, kwargs |-> kwargs]
        /\ Run(<<>>, on_text(text, kwargs))
    /\ Remember
    /\ UNCHANGED debug_mode

Call_on_llm_start ==
    /\ pc \in Ready
    /\ \E serialized \in Serializeds, prompts \in Prompts, kwargs \in Kwargs :
        /\ call' = [kind |-> "on_llm_start", serialized |-> serialized,
                    prompts |-> prompts, kwargs |-> kwargs]
        /\ Run(<<>>, on_llm_start(serialized, prompts, kwargs))
    /\ Remember
    /\ UNCHANGED debug_mode

Call_on_llm_end ==
    /\ pc \in Ready
    /\ \E response \in Responses, kwargs \in Kwargs :
        /\ call' = [kind |-> "on_llm_end", response |-> response, kwargs |-> kwargs]
        /\ Run(<<>>, on_llm_end(response, kwargs))
    /\ Remember
    /\ UNCHANGED debug_mode

Call_on_chain_start ==
    /\ pc \in Ready
    /\ \E serialized \in Serializeds, inputs \in Mappings, kwargs \in Kwargs :
        /\ call' = [kind |-> "on_chain_start", serialized |-> serialized,
                    inputs |-> inputs, kwargs |-> kwargs]
        /\ Run(<<>>, on_chain_start(serialized, inputs, kwargs))
    /\ Remember
    /\ UNCHANGED debug_mode

Call_on_chain_end ==
    /\ pc \in Ready
    /\ \E outputs \in Mappings, kwargs \in Kwargs :
        /\ call' = [kind |-> "on_chain_end", outputs |-> outputs, kwargs |-> kwargs]
        /\ Run(<<>>, on_chain_end(outputs, kwargs))
    /\ Remember
    /\ UNCHANGED debug_mode

Call_on_tool_start ==
    /\ pc \in Ready
    /\ \E serialized \in Serializeds, input_str \in Texts, kwargs \in Kwargs :
        /\ call' = [kind |-> "on_tool_start", serialized |-> serialized,
                    input_str |-> input_str, kwargs |-> kwargs]
        /\ Run(<<>>, on_tool_start(serialized, input_str, kwargs))
    /\ Remember
    /\ UNCHANGED debug_mode

Call_on_tool_end ==
    /\ pc \in Ready
    /\ \E output_ \in Texts, observation_prefix \in {None, Str("Observation: ")},
          kwargs \in ToolEndKwargs :
        /\ call' = [kind |-> "on_tool_end", output |-> output_,
                    observation_prefix |-> observation_prefix, kwargs |-> kwargs]
        /\ Run(<<>>, on_tool_end(output_, observation_prefix, None, kwargs))
    /\ Remember
    /\ UNCHANGED debug_mode

Call_on_agent_action ==
    /\ pc \in Ready
    /\ \E action \in Agents("AgentAction"), kwargs \in Kwargs :
        /\ call' = [kind |-> "on_agent_action", action |-> action, kwargs |-> kwargs]
        /\ Run(<<>>, on_agent_action(action, kwargs))
    /\ Remember
    /\ UNCHANGED debug_mode

Call_on_agent_finish ==
    /\ pc \in Ready
    /\ \E finish \in Agents("AgentFinish"), kwargs \in Kwargs :
        /\ call' = [kind |-> "on_agent_finish", finish |-> finish, kwargs |-> kwargs]
        /\ Run(<<>>, on_agent_finish(finish, kwargs))
    /\ Remember
    /\ UNCHANGED debug_mode

(* mutant: on_llm_error switches debug_mode on *)
Call_on_llm_error_sets_debug_mode ==
    /\ pc \in Ready
    /\ \E error \in Errors, kwargs \in Kwargs :
        /\ call' = [kind |-> "on_llm_error", error |-> error, kwargs |-> kwargs]
        /\ Run(<<>>, on_llm_error(error, kwargs))
    /\ Remember
    /\ debug_mode' = TRUE

Call_on_llm_error ==
    /\ pc \in Ready
    /\ \E error \in Errors, kwargs \in Kwargs :
        /\ call' = [kind |-> "on_llm_error", error |-> error, kwargs |-> kwargs]
        /\ Run(<<>>, on_llm_error(error, kwargs))
    /\ Remember
    /\ UNCHANGED debug_mode

Call_on_chain_error ==
    /\ pc \in Ready
    /\ \E error \in Errors, kwargs \in Kwargs :
        /\ call' = [kind |-> "on_chain_error", error |-> error, kwargs |-> kwargs]
        /\ Run(<<>>, on_chain_error(error, kwargs))
    /\ Remember
    /\ UNCHANGED debug_mode

Call_on_tool_error ==
    /\ pc \in Ready
    /\ \E error \in Errors, kwargs \in Kwargs :
        /\ call' = [kind |-> "on_tool_error", error |-> error, kwargs |-> kwargs]
        /\ Run(<<>>, on_tool_error(error, kwargs))
    /\ Remember
    /\ UNCHANGED debug_mode

Call_on_retriever_start ==
    /\ pc \in Ready
    /\ \E serialized \in Serializeds, query \in Texts, run \in Runs,
          tags \in TagsValues :
        /\ call' = [kind |-> "on_retriever_start", serialized |-> serialized,
                    query |-> query, run_id |-> run[1],
                    parent_run_id |-> run[2], tags |-> tags]
        /\ Run(<<>>, on_retriever_start(serialized, query, run[1], run[2],
                                        tags, None, <<>>))
    /\ Remember
    /\ UNCHANGED debug_mode

Call_on_retriever_end ==
    /\ pc \in Ready
    /\ \E documents \in Documents, run \in Runs :
        /\ call' = [kind |-> "on_retriever_end", documents |-> documents,
                    run_id |-> run[1], parent_run_id |-> run[2]]
        /\ Run(<<>>, on_retriever_end(documents, run[1], run[2], <<>>))
    /\ Remember
    /\ UNCHANGED debug_mode

(* pdb "continue": the suspended handler runs on from its breakpoint() *)
Continue ==
    /\ pc = "suspended"
    /\ Run(output, rest)
    /\ UNCHANGED <<debug_mode, call, prev>>

(* pdb "quit": the operator ends the suspended handler with BdbQuit *)
Quit ==
    /\ pc = "suspended"
    /\ pc' = "aborted"
    /\ exc' = "BdbQuit"
    /\ rest' = <<>>
    /\ UNCHANGED <<debug_mode, call, output, prev>>

Next ==
    \/ Call_on_text
    \/ Call_on_llm_start
    \/ Call_on_llm_end
    \/ Call_on_chain_start
    \/ Call_on_chain_end
    \/ Call_on_tool_start
    \/ Call_on_tool_end
    \/ Call_on_agent_action
    \/ Call_on_agent_finish
    \/ Call_on_llm_error
    \/ Call_on_chain_error
    \/ Call_on_tool_error
    \/ Call_on_retriever_start
    \/ Call_on_retriever_end
    \/ Continue
    \/ Quit

Spec == Init /\ [][Next]_vars

----------------------------------------------------------------------------
(* Vocabulary of the properties. *)

ErrorKinds == {"on_llm_error", "on_chain_error", "on_tool_error"}

ReportKinds ==
    {"on_chain_start", "on_chain_end", "on_llm_start", "on_llm_end",
     "on_tool_start", "on_tool_end", "on_agent_action", "on_agent_finish",
     "on_retriever_start", "on_retriever_end"}

Positions(fn) == {i \in 1..Len(output) : output[i].fn = fn}

Count(fn) == Cardinality(Positions(fn))

IsDebugInfo(e) == e.fn \in {"debug_info", "debug_info_labeled"}

CallRunId == IF "kwargs" \in DOMAIN call THEN Get(call.kwargs, "run_id") ELSE call.run_id

CallParentRunId ==
    IF "kwargs" \in DOMAIN call THEN Get(call.kwargs, "parent_run_id")
    ELSE call.parent_run_id

IsRunIdLine(e) ==
    /\ e.fn \in {"key_info_labeled", "debug_info_labeled"}
    /\ e.label = "Chain ID"
    /\ e.text = CallRunId.s

IsParentRunIdLine(e) ==
    /\ e.fn \in {"key_info_labeled", "debug_info_labeled"}
    /\ e.label = "Parent chain ID"
    /\ e.text = (IF CallParentRunId = None THEN "None" ELSE CallParentRunId.s)

(* the payload has every field the handler reads, one primary item, and no
   empty collection *)
WellFormed ==
    CASE call.kind = "on_llm_start" -> Len(call.prompts) = 1
      [] call.kind = "on_llm_end" ->
            /\ Len(call.response.generations) = 1
            /\ call.response.generations[1] # <<>>
      [] call.kind = "on_chain_start" ->
            HasKey(call.serialized, "id") /\ call.inputs # <<>>
      [] call.kind = "on_chain_end" -> call.outputs # <<>>
      [] call.kind = "on_tool_start" -> HasKey(call.serialized, "name")
      [] call.kind = "on_tool_end" -> HasKey(call.kwargs, "name")
      [] call.kind = "on_agent_action" -> call.action.has_log
      [] call.kind = "on_agent_finish" -> call.finish.has_log
      [] call.kind = "on_retriever_start" -> HasKey(call.serialized, "id")
      [] call.kind = "on_retriever_end" -> call.documents # <<>>
      [] OTHER -> TRUE

(* multiple items, an empty collection, or a missing identifying field *)
Anomalous ==
    CASE call.kind = "on_llm_start" -> Len(call.prompts) # 1
      [] call.kind = "on_llm_end" ->
            \/ Len(call.response.generations) # 1
            \/ call.response.generations[1] = <<>>
      [] call.kind \in ReportKinds -> ~WellFormed
      [] OTHER -> FALSE

----------------------------------------------------------------------------
(* C1: no handler ever raises: every call, whatever its payload and
   debug_mode, ends by returning to the framework and never in an exception
   of the handler. *)
C1_NoHandlerRaises == pc # "raised"

(* C2, as stated: for each of the thirteen event kinds, a handler called
   with a well-formed payload emits exactly one heading line, and the two
   items right after it are the run identifier and then the parent run
   identifier. *)
C2_HeadingThenIds ==
    (call.kind \in ReportKinds \cup ErrorKinds /\ WellFormed /\ pc = "returned")
        => /\ Count("heading") = 1
           /\ \E i \in Positions("heading") :
                /\ i + 2 <= Len(output)
                /\ IsRunIdLine(output[i + 1])
                /\ IsParentRunIdLine(output[i + 2])

(* C2, amended: for each event kind other than the three error kinds, a
   handler called with a well-formed payload emits exactly one heading line,
   as its first item, and the run identifier immediately followed by the
   parent run identifier: right after the heading, except in on_chain_start,
   where the chain class line comes between the heading and the run
   identifier.  The three error handlers emit no heading line and no run
   identifier. *)
C2_HeadingThenIdsAmended ==
    /\ (call.kind \in ReportKinds /\ WellFormed /\ pc = "returned")
        => LET first == IF call.kind = "on_chain_start" THEN 3 ELSE 2
           IN  /\ Positions("heading") = {1}
               /\ Len(output) > first
               /\ IsRunIdLine(output[first])
               /\ IsParentRunIdLine(output[first + 1])
               /\ \A i \in 1..Len(output) :
                    /\ IsRunIdLine(output[i]) => i = first
                    /\ IsParentRunIdLine(output[i]) => i = first + 1
               /\ call.kind = "on_chain_start"
                    => output[2].fn = "key_info_labeled" /\ output[2].label = "Chain class"
    /\ call.kind \in ErrorKinds
        => \A i \in 1..Len(output) :
            /\ output[i].fn # "heading"
            /\ output[i].label \notin {"Chain ID", "Parent chain ID"}

C2_Witness ==
    /\ call.kind = "on_chain_start"
    /\ WellFormed
    /\ pc = "returned"
    /\ debug_mode
    /\ CallParentRunId # None
    /\ Len(output) > 4

(* C3, as stated: on_chain_end called with an empty output mapping emits a
   warning line and no "Output <key>" line, and returns normally (after a
   suspension when debug_mode is set). *)
C3_EmptyOutputsWarns ==
    (call.kind = "on_chain_end" /\ call.outputs = <<>>)
        => /\ pc \in {"suspended", "returned", "aborted"}
           /\ Count("debug_error") >= 1
           /\ \A i \in 1..Len(output) : output[i].label = ""
                                        \/ output[i].label \in {"Chain ID", "Parent chain ID",
                                                                "Arguments", "outputs"}

(* C4: on_llm_start called with debug_mode false and two or more prompts
   returns having emitted the first prompt, and no later prompt, as the text
   sent to the LLM, after the warning that only the first item is output. *)
C4_FirstPromptOnly ==
    (call.kind = "on_llm_start" /\ ~debug_mode /\ Len(call.prompts) >= 2)
        => /\ pc = "returned"
           /\ \E k \in 1..Len(output) :
                /\ Positions("llm_call") = {k}
                /\ output[k].text = call.prompts[1]
                /\ {i \in 1..Len(output) :
                        \E j \in 1..Len(call.prompts) : output[i].text = call.prompts[j]} = {k}
                /\ \E w \in 1..(k - 1) :
                        /\ output[w].fn = "debug_error"
                        /\ output[w].text = "Only outputting first item in prompts."
           /\ \A i \in 1..Len(output) : output[i].label # "Prompts"

C4_Witness ==
    /\ call.kind = "on_llm_start"
    /\ ~debug_mode
    /\ call.prompts = <<"a", "b">>
    /\ pc = "returned"
    /\ \E k \in Positions("llm_call") : output[k].text = "a"

(* C5: on_llm_start called with debug_mode true and two prompts suspends
   exactly once, right after emitting the whole prompt list and before the
   text sent to the LLM; once continued it emits the first prompt as the text
   sent to the LLM and returns. *)
C5_SuspendAfterPrompts ==
    (call.kind = "on_llm_start" /\ debug_mode /\ Len(call.prompts) = 2)
        => /\ pc \in {"suspended", "returned", "aborted"}
           /\ \E k \in 2..Len(output) :
                /\ Positions("breakpoint") = {k}
                /\ output[k - 1].fn = "debug_info_labeled"
                /\ output[k - 1].label = "Prompts"
                /\ output[k - 1].text =
                        "['" \o call.prompts[1] \o "', '" \o call.prompts[2] \o "']"
                /\ \A i \in Positions("llm_call") : i > k
                /\ pc = "suspended"
                    => /\ k = Len(output)
                       /\ Len(rest) >= 2
                       /\ rest[1] = key_info("Text sent to LLM:")
                       /\ rest[2] = llm_call(call.prompts[1])
                       /\ ~Raises(rest)
                       /\ \A i \in 1..Len(rest) : rest[i].fn # "breakpoint"
                /\ pc = "returned"
                    => /\ Positions("llm_call") = {k + 2}
                       /\ output[k + 1] = key_info("Text sent to LLM:")
                       /\ output[k + 2] = llm_call(call.prompts[1])

C5_Witness ==
    /\ call.kind = "on_llm_start"
    /\ debug_mode
    /\ call.prompts = <<"a", "b">>
    /\ pc = "returned"
    /\ Count("breakpoint") = 1
    /\ \E i \in 1..Len(output) : output[i].text = "['a', 'b']"

(* the "   <key>" lines of on_chain_start *)
KeyLines ==
    SelectSeq(output, LAMBDA e : e.fn = "key_info_labeled"
                                 /\ \E k \in MappingKeys : e.label = "   " \o k)

OtherKeys(keys) == SelectSeq(keys, LAMBDA k : k \notin {"stop", "agent_scratchpad"})

(* C6: on_chain_start emits one key/value line for every key of the input
   mapping other than "stop" and "agent_scratchpad", in the mapping's
   iteration order, and never a key/value line for either of those two. *)
C6_NoiseKeysSkipped ==
    call.kind = "on_chain_start"
        => /\ \A i \in 1..Len(output) :
                output[i].label \notin {"   stop", "   agent_scratchpad"}
           /\ pc = "returned"
                => LET keys == OtherKeys(Keys(call.inputs))
                   IN  /\ Len(KeyLines) = Len(keys)
                       /\ \A i \in 1..Len(keys) :
                            /\ KeyLines[i].label = "   " \o keys[i]
                            /\ KeyLines[i].text = Get(call.inputs, keys[i]).s

C6_Witness ==
    /\ call.kind = "on_chain_start"
    /\ pc = "returned"
    /\ Keys(call.inputs) = <<"input", "agent_scratchpad", "food">>
    /\ Len(KeyLines) = 2
    /\ KeyLines[1].label = "   input"
    /\ KeyLines[2].label = "   food"

(* C7: on_retriever_end emits "Found N documents." for the N documents
   given; with N = 0 a warning follows and no document section; with N > 0
   exactly N sections follow, numbered 0..N-1 in the order given, each with
   that document's metadata and contents. *)
C7_DocumentSections ==
    call.kind = "on_retriever_end"
        => LET n == Len(call.documents)
           IN  /\ Len(output) >= 4
               /\ output[4] = key_info("Found " \o ToString(n) \o " documents.")
               /\ n = 0
                    => /\ output[4].text = "Found 0 documents."
                       /\ Len(output) >= 5
                       /\ output[5] = debug_error("No documents found.")
                       /\ Count("tool_output") = 0
                       /\ Count("key_info") = 1
                       /\ \A i \in 6..Len(output) : output[i].fn = "breakpoint"
               /\ n > 0
                    => /\ pc = "returned"
                       /\ Len(output) = 4 + 5 * n
                       /\ Count("debug_error") = 0
                       /\ \A d \in 0..(n - 1) :
                            /\ output[4 + 5 * d + 1].fn = "key_info"
                            /\ output[4 + 5 * d + 4] = key_info("Document contents:")
                            /\ output[4 + 5 * d + 2] =
                                key_info("Document number " \o ToString(d)
                                         \o " of " \o ToString(n))
                            /\ output[4 + 5 * d + 3].label = "Metadata"
                            /\ output[4 + 5 * d + 3].text =
                                DictStr(call.documents[d + 1].metadata)
                            /\ output[4 + 5 * d + 5] =
                                tool_output(call.documents[d + 1].page_content)

C7_Witness ==
    /\ call.kind = "on_retriever_end"
    /\ pc = "returned"
    /\ Len(call.documents) = 2
    /\ call.documents[1].page_content = "p2"
    /\ call.documents[2].page_content = "p1"
    /\ output[4].text = "Found 2 documents."
    /\ output[6].text = "Document number 0 of 2"
    /\ output[9].text = "p2"
    /\ output[11].text = "Document number 1 of 2"
    /\ output[14].text = "p1"

(* C8: with debug_mode false no handler ever suspends; a handler suspends
   only with debug_mode true, and only in a call whose payload is anomalous
   or that is an error-kind event. *)
C8_SuspendOnlyInDebug ==
    (pc = "suspended" \/ Count("breakpoint") > 0)
        => /\ debug_mode
           /\ Anomalous \/ call.kind \in ErrorKinds

C8_Witness ==
    /\ pc = "suspended"
    /\ call.kind = "on_retriever_end"
    /\ call.documents = <<>>

(* C9, as stated: with debug_mode false no handler of any kind emits an item
   in the debug-information register (debug_info, debug_info_labeled). *)
C9_DebugInfoOnlyInDebug ==
    ~debug_mode => \A i \in 1..Len(output) : ~IsDebugInfo(output[i])

(* C9, amended: with debug_mode false no handler other than the three error
   handlers emits an item in the debug-information register; each error
   handler emits exactly one, the "Error object" line with the error's
   string form, as its second item. *)
C9_DebugInfoOnlyInDebugAmended ==
    ~debug_mode
        => /\ call.kind \notin ErrorKinds
                => \A i \in 1..Len(output) : ~IsDebugInfo(output[i])
           /\ call.kind \in ErrorKinds
                => /\ {i \in 1..Len(output) : IsDebugInfo(output[i])} = {2}
                   /\ output[2] = debug_info_labeled("Error object", call.error.msg, FALSE)

C9_Witness ==
    /\ ~debug_mode
    /\ pc = "returned"
    /\ call.kind = "on_llm_error"
    /\ call.error.msg = "boom"
    /\ output[2].fn = "debug_info_labeled"
    /\ output[2].text = "boom"

KindName(kind) ==
    CASE kind = "on_llm_error" -> "LLM Error"
      [] kind = "on_chain_error" -> "Chain Error"
      [] kind = "on_tool_error" -> "Tool Error"

(* C10: each of the three error handlers emits a bold-red error heading that
   names its own event kind, then the error's string form, then suspends if
   and only if debug_mode is true, and does not raise. *)
C10_ErrorHandlers ==
    call.kind \in ErrorKinds
        => /\ Len(output) >= 2
           /\ output[1].fn = "debug_error"
           /\ output[1].style = <<"BOLD", "RED">>
           /\ output[1].text = KindName(call.kind)
           /\ output[2].text = call.error.msg
           /\ Count("breakpoint") = (IF debug_mode THEN 1 ELSE 0)
           /\ pc # "raised"

(* C11: a handler called twice in a row with the same payload emits the
   same items both times and ends the same way, whatever calls came before:
   the second call runs under the debug_mode of the first, and while it is
   suspended or aborted what it has emitted is the start of what the first
   call emitted. *)
C11_SameOutputTwice ==
    prev.set
        => /\ debug_mode = prev.debug_mode
           /\ pc \in {"returned", "raised"}
                => /\ output = prev.output
                   /\ pc = prev.pc
                   /\ exc = prev.exc
           /\ pc \in {"suspended", "aborted"}
                => /\ Len(output) <= Len(prev.output)
                   /\ output = SubSeq(prev.output, 1, Len(output))

C11_Witness ==
    /\ prev.set
    /\ call.kind = "on_llm_start"
    /\ debug_mode
    /\ call.prompts = <<"a", "b">>
    /\ pc = "returned"
    /\ Count("breakpoint") = 1
    /\ output = prev.output
    /\ Len(output) > 8

====
